---- MODULE Spec2Model ----
(***************************************************************************)
(* Model of mage-module-shard (src/src/index.ts): the pending-request      *)
(* registry of AbstractShardedModule, ShardedRequest.send, the request and *)
(* response delivery handlers, the stalled-request garbage collector and   *)
(* the @Shard() method wrapper.                                            *)
(*                                                                         *)
(* One initiating node (the module instance under study) talks to an       *)
(* executing node through the mmrp transport.  JavaScript is single        *)
(* threaded: every handler below is one atomic action; what interleaves    *)
(* are the handlers themselves (timer, deliveries, send acknowledgements). *)
(* pendingRequests and pendingRequestsKeyMap are taken at their declared   *)
(* types: an empty Map and an empty object after construction.             *)
(***************************************************************************)
EXTENDS Integers, Sequences, FiniteSets, TLC

\* ---------------------------------------------------------------- bounds
MaxRequests == 2      \* addPendingRequest is called at most this many times
MaxTime == 6          \* the clock Date.now() runs over 0..MaxTime
DebounceWindow == 2   \* the quiet period after a membership event (not set in the source)

\* gcTimeoutTime, the constructor's second parameter (time units)
GcTimeoutTime == 2

\* ---------------------------------------------------------------- values
Undef == "undefined"          \* JavaScript undefined
NULL == 0                     \* no object reference (object refs are 1..)
NoError == "none"

KeyNotFound == "Key not found in request key map"
PendingNotFound == "Pending request not found"
NotAFunction == "TypeError: not a function"
TimedOut == "Request timed out"
SendError == "send error"
MethodNameMissing == "Method name is missing"
MethodNotAvailable == "Method is not locally available"

\* the id addPendingRequest gives every request
RequestId == "1"

\* the remote calls made, <<method, args>>: what a caller passes to
\* addPendingRequest
Calls == {<<"1", <<"get">>>>, <<"1", <<"fail">>>>, <<"1", <<"x">>>>, <<"get", <<>>>>}
Methods == {c[1] : c \in Calls}

\* strings that can show up as a request id in a response envelope
Ids == Methods \cup {RequestId}

\* JavaScript truthiness of a message value
Truthy(x) == x \notin {Undef, ""}

\* shardedMethods: the method bodies registered by @Shard() on the module;
\* "get" returns the value "v", "fail" throws "boom"
ShardedMethodNames == {"get", "fail"}
MethodBody(name, args) ==
  IF name = "get" THEN [threw |-> FALSE, val |-> "v"]
                  ELSE [threw |-> TRUE, val |-> "boom"]

\* ByStateActorId: the default sharding function returns state.actorId,
\* the state being the first argument
ByStateActorId(args) == IF Len(args) > 0 THEN args[1] ELSE Undef

VARIABLES
  now,                    \* Date.now()
  requests,               \* heap of ShardedRequest objects with their key {id, timestamp}
  pendingRequests,        \* Map<IShardedRequestMeta, ShardedRequest>, in insertion order
  pendingRequestsKeyMap,  \* { [id]: IShardedRequestMeta }
  gcTimer,                \* this.gcTimer: the scheduled timeout (its due time) or null
  timers,                 \* timeouts set with setTimeout and not yet fired or cleared
  requestNet,             \* request envelopes accepted by the transport, in flight
  responseNet,            \* response envelopes in flight to the initiating node
  thrown,                 \* the error the last handler of the module threw, or none
  returned,               \* what the last call of a @Shard() method returned, or none
  nodes,                  \* this.service: the nodes the service discovery reports up
  lastChange,             \* when the service emitted its last 'up' or 'down'
  leader                  \* the leader onNodeAdded / onNodeRemoved are to update, or none

cluster == <<nodes, lastChange, leader>>

vars == <<now, requests, pendingRequests, pendingRequestsKeyMap, gcTimer, timers,
          requestNet, responseNet, thrown, returned, nodes, lastChange, leader>>

\* the nodes of the cluster
Nodes == {"A", "B", "C"}
NoLeader == "none"

NoTimer == -1

\* ---------------------------------------------------------------- helpers
InSeq(s, x) == \E i \in DOMAIN s : s[i] = x
Remove(s, x) == SelectSeq(s, LAMBDA y : y # x)

\* new ShardedRequest(eventName, target, method, args) with its key {id, timestamp};
\* resolve and reject are not set by the constructor
NewShardedRequest(id, timestamp, method, args) ==
  [id |-> id, timestamp |-> timestamp, method |-> method, args |-> args,
   sendState |-> "new",       \* new | sending | acked | failed
   ack |-> "none",            \* what the transport will report: none | ok | error
   callbacks |-> FALSE,       \* this.resolve / this.reject installed
   promise |-> [state |-> "pending", value |-> Undef],
   calls |-> 0]               \* invocations of request.resolve / request.reject

\* the promise's resolve / reject: only the first settles it
Settle(p, state, value) ==
  IF p.state = "pending" THEN [state |-> state, value |-> value] ELSE p

\* ---------------------------------------------------------------- registry
\* getPendingRequest(id)
GetPendingRequest(id, km, pend) ==
  LET key == km[id] IN
  IF key = NULL THEN [err |-> KeyNotFound, request |-> NULL]
  ELSE IF ~InSeq(pend, key) THEN [err |-> PendingNotFound, request |-> NULL]
  ELSE [err |-> NoError, request |-> key]

\* deletePendingRequest(id)
DeletePendingRequest(id, km, pend) ==
  LET key == km[id] IN
  IF key = NULL THEN [err |-> KeyNotFound, km |-> km, pend |-> pend]
  ELSE [err |-> NoError, km |-> [km EXCEPT ![id] = NULL], pend |-> Remove(pend, key)]

\* getAndDeletePendingRequest(id)
GetAndDeletePendingRequest(id, km, pend) ==
  LET g == GetPendingRequest(id, km, pend) IN
  IF g.err # NoError
  THEN [err |-> g.err, request |-> NULL, km |-> km, pend |-> pend]
  ELSE LET d == DeletePendingRequest(id, km, pend) IN
       [err |-> d.err, request |-> g.request, km |-> d.km, pend |-> d.pend]

\* request.resolve(data) / request.reject(error) on a request object: a
\* TypeError when send()'s acknowledgement has not installed the callbacks
CallCallback(reqs, r, state, value) ==
  IF ~reqs[r].callbacks
  THEN [err |-> NotAFunction, reqs |-> reqs]
  ELSE [err |-> NoError,
        reqs |-> [reqs EXCEPT ![r].promise = Settle(@, state, value),
                              ![r].calls = @ + 1]]

\* scheduleGarbageCollection(gcTimeoutTime): clears a scheduled timer, sets a new one
ScheduleGarbageCollection(timer, ts, t) ==
  [gcTimer |-> t + GcTimeoutTime,
   timers |-> (IF timer # NoTimer THEN ts \ {timer} ELSE ts) \cup {t + GcTimeoutTime}]

Init ==
  /\ now = 0
  /\ requests = <<>>
  /\ pendingRequests = <<>>
  /\ pendingRequestsKeyMap = [id \in Ids |-> NULL]
  /\ gcTimer = ScheduleGarbageCollection(NoTimer, {}, 0).gcTimer
  /\ timers = ScheduleGarbageCollection(NoTimer, {}, 0).timers
  /\ requestNet = {}
  /\ responseNet = {}
  /\ thrown = NoError
  /\ returned = "none"
  /\ nodes = {}
  /\ lastChange = 0
  /\ leader = NoLeader

\* time passes; a due timeout fires before the clock moves on
Tick ==
  /\ now < MaxTime
  /\ \A t \in timers : now < t
  /\ now' = now + 1
  /\ UNCHANGED <<requests, pendingRequests, pendingRequestsKeyMap, gcTimer, timers,
                 requestNet, responseNet, thrown, returned>>
  /\ UNCHANGED cluster

\* addPendingRequest(target, method, args)
AddPendingRequest(method, args) ==
  /\ Len(requests) < MaxRequests
  /\ now + 2 * GcTimeoutTime <= MaxTime
  /\ LET id == RequestId
         key == Len(requests) + 1
     IN /\ requests' = Append(requests, NewShardedRequest(id, now, method, args))
        /\ pendingRequestsKeyMap' = [pendingRequestsKeyMap EXCEPT ![id] = key]
        /\ pendingRequests' = Append(pendingRequests, key)
        /\ thrown' = NoError
  /\ UNCHANGED <<now, gcTimer, timers, requestNet, responseNet, returned>>
  /\ UNCHANGED cluster

\* ShardedRequest.send(): builds the request envelope and hands it to the
\* transport; the transport's callback (SendCallback) comes later
RequestEnvelope(req) ==
  [messages |-> <<req.method>> \o req.args, returnRoute |-> "initiator"]

Send(r) ==
  /\ r \in DOMAIN requests
  /\ requests[r].sendState = "new"
  /\ \E accepted \in BOOLEAN :
       /\ requests' = [requests EXCEPT ![r].sendState = "sending",
                                       ![r].ack = IF accepted THEN "ok" ELSE "error"]
       /\ requestNet' = IF accepted THEN requestNet \cup {RequestEnvelope(requests[r])}
                                    ELSE requestNet
  /\ thrown' = NoError
  /\ UNCHANGED <<now, pendingRequests, pendingRequestsKeyMap, gcTimer, timers, responseNet,
                 returned>>
  /\ UNCHANGED cluster

\* the callback send() passes to mmrpNode.send
SendCallbackEffect(req) ==
  IF req.ack = "error"
  THEN [req EXCEPT !.sendState = "failed",
                   !.promise = Settle(@, "rejected", SendError)]
  ELSE [req EXCEPT !.sendState = "acked", !.callbacks = TRUE]

SendCallback(r) ==
  /\ r \in DOMAIN requests
  /\ requests[r].sendState = "sending"
  /\ requests' = [requests EXCEPT ![r] = SendCallbackEffect(@)]
  /\ thrown' = NoError
  /\ UNCHANGED <<now, pendingRequests, pendingRequestsKeyMap, gcTimer, timers,
                 requestNet, responseNet, returned>>
  /\ UNCHANGED cluster

\* the target node goes down: a request in flight is never delivered
LoseRequest(env) ==
  /\ env \in requestNet
  /\ requestNet' = requestNet \ {env}
  /\ UNCHANGED <<now, requests, pendingRequests, pendingRequestsKeyMap, gcTimer, timers,
                 responseNet, thrown, returned>>
  /\ UNCHANGED cluster

\* onRequest(messages) on the executing node
OnRequest(messages) ==
  IF Len(messages) = 0 \/ ~Truthy(Head(messages))
  THEN [threw |-> TRUE, val |-> MethodNameMissing]
  ELSE LET methodName == Head(messages) IN
       IF methodName \notin ShardedMethodNames
       THEN [threw |-> TRUE, val |-> MethodNotAvailable]
       ELSE MethodBody(methodName, Tail(messages))

\* the messages of the response envelope the request delivery handler builds
ResponseMessages(requestMessages) ==
  LET requestId == Head(requestMessages)
      r == OnRequest(Tail(requestMessages))
      response == IF r.threw THEN Undef ELSE r.val
      responseError == IF r.threw THEN r.val ELSE Undef
  IN <<requestId, response, responseError>>

\* RequestDelivery with the response sent at the end of the try block instead
\* of in finally: nothing is sent when onRequest throws
RequestDeliveryNoFinally(env) ==
  /\ env \in requestNet
  /\ requestNet' = requestNet \ {env}
  /\ responseNet' =
       IF OnRequest(Tail(env.messages)).threw THEN responseNet
       ELSE responseNet \cup
              {[messages |-> ResponseMessages(env.messages), route |-> env.returnRoute]}
  /\ UNCHANGED <<now, requests, pendingRequests, pendingRequestsKeyMap, gcTimer, timers,
                 thrown, returned>>
  /\ UNCHANGED cluster

\* mmrpNode.on(`delivery.${REQUEST_EVENT_NAME}`, ...) on the executing node
RequestDelivery(env) ==
  /\ env \in requestNet
  /\ requestNet' = requestNet \ {env}
  /\ responseNet' = responseNet \cup
       {[messages |-> ResponseMessages(env.messages), route |-> env.returnRoute]}
  /\ UNCHANGED <<now, requests, pendingRequests, pendingRequestsKeyMap, gcTimer, timers,
                 thrown, returned>>
  /\ UNCHANGED cluster

\* onResponse(messages): what it does to the registry and the requests
OnResponseEffect(messages, km, pend, reqs) ==
  LET requestId == messages[1]
      error == messages[2]
      data == messages[3]
      gd == GetAndDeletePendingRequest(requestId, km, pend)
  IN IF gd.err # NoError
     THEN [err |-> gd.err, request |-> NULL, km |-> km, pend |-> pend, reqs |-> reqs]
     ELSE LET cc == IF Truthy(error)
                    THEN CallCallback(reqs, gd.request, "rejected", error)
                    ELSE CallCallback(reqs, gd.request, "fulfilled", data)
          IN [err |-> cc.err, request |-> gd.request, km |-> gd.km, pend |-> gd.pend,
              reqs |-> cc.reqs]

\* mmrpNode.on(`delivery.${RESPONSE_EVENT_NAME}`, ...); the transport delivers
\* at least once, so the envelope may be delivered again later
OnResponse(env) ==
  /\ env \in responseNet
  /\ LET e == OnResponseEffect(env.messages, pendingRequestsKeyMap, pendingRequests, requests)
     IN /\ pendingRequestsKeyMap' = e.km
        /\ pendingRequests' = e.pend
        /\ requests' = e.reqs
        /\ thrown' = e.err
  /\ \E again \in BOOLEAN : responseNet' = IF again THEN responseNet ELSE responseNet \ {env}
  /\ UNCHANGED <<now, gcTimer, timers, requestNet, returned>>
  /\ UNCHANGED cluster

\* the loop of the GC timer body over this.pendingRequests.keys(), from the
\* i-th key of the Map as it was when the loop started; a key deleted before
\* the iterator reaches it is not visited
RECURSIVE GcScan(_, _, _, _, _, _)
GcScan(keys, i, t, km, pend, reqs) ==
  IF i > Len(keys) THEN [err |-> NoError, km |-> km, pend |-> pend, reqs |-> reqs]
  ELSE LET key == keys[i] IN
    IF ~InSeq(pend, key) THEN GcScan(keys, i + 1, t, km, pend, reqs)
    ELSE IF reqs[key].timestamp >= t - GcTimeoutTime
    THEN [err |-> NoError, km |-> km, pend |-> pend, reqs |-> reqs]
    ELSE LET gd == GetAndDeletePendingRequest(reqs[key].id, km, pend) IN
      IF gd.err # NoError
      THEN [err |-> gd.err, km |-> km, pend |-> pend, reqs |-> reqs]
      ELSE LET cc == CallCallback(reqs, gd.request, "rejected", TimedOut) IN
        IF cc.err # NoError
        THEN [err |-> cc.err, km |-> gd.km, pend |-> gd.pend, reqs |-> reqs]
        ELSE GcScan(keys, i + 1, t, gd.km, gd.pend, cc.reqs)

\* the timeout callback set by scheduleGarbageCollection; an error thrown in
\* the loop leaves the callback before the next GC is scheduled
GcFire(t) ==
  /\ t \in timers
  /\ now = t
  /\ LET g == GcScan(pendingRequests, 1, now, pendingRequestsKeyMap, pendingRequests, requests)
         s == ScheduleGarbageCollection(NoTimer, timers \ {t}, now)
     IN /\ pendingRequestsKeyMap' = g.km
        /\ pendingRequests' = g.pend
        /\ requests' = g.reqs
        /\ gcTimer' = IF g.err = NoError THEN s.gcTimer ELSE NoTimer
        /\ timers' = IF g.err = NoError THEN s.timers ELSE timers \ {t}
        /\ thrown' = g.err
  /\ UNCHANGED <<now, requestNet, responseNet, returned>>
  /\ UNCHANGED cluster

\* the function @Shard() installs as descriptor.value: computes the shard key
\* and returns nothing
ShardWrapper(method, args) ==
  [key |-> ByStateActorId(args), result |-> Undef]

\* a call of a @Shard()-decorated method; local says whether the node that
\* owns the shard key is this node, which the wrapper never looks up
Invoke(method, args, local) ==
  /\ returned' = ShardWrapper(method, args).result
  /\ thrown' = NoError
  /\ UNCHANGED <<now, requests, pendingRequests, pendingRequestsKeyMap, gcTimer, timers,
                 requestNet, responseNet>>
  /\ UNCHANGED cluster

\* onNodeAdded(node) and onNodeRemoved(node): what they do to the leader
OnNodeAddedEffect(ldr, node) == ldr
OnNodeRemovedEffect(ldr, node) == ldr

\* service.on('up', ...): the service discovery reports a node up
OnNodeAdded(node) ==
  /\ node \notin nodes
  /\ nodes' = nodes \cup {node}
  /\ lastChange' = now
  /\ leader' = OnNodeAddedEffect(leader, node)
  /\ UNCHANGED <<now, requests, pendingRequests, pendingRequestsKeyMap, gcTimer, timers,
                 requestNet, responseNet, thrown, returned>>

\* service.on('down', ...): the service discovery reports a node down
OnNodeRemoved(node) ==
  /\ node \in nodes
  /\ nodes' = nodes \ {node}
  /\ lastChange' = now
  /\ leader' = OnNodeRemovedEffect(leader, node)
  /\ UNCHANGED <<now, requests, pendingRequests, pendingRequestsKeyMap, gcTimer, timers,
                 requestNet, responseNet, thrown, returned>>

Next ==
  \/ Tick
  \/ \E c \in Calls : AddPendingRequest(c[1], c[2])
  \/ \E r \in 1..MaxRequests : Send(r)
  \/ \E r \in 1..MaxRequests : SendCallback(r)
  \/ \E env \in requestNet : LoseRequest(env)
  \/ \E env \in requestNet : RequestDelivery(env)
  \/ \E env \in responseNet : OnResponse(env)
  \/ \E t \in timers : GcFire(t)
  \/ \E m \in ShardedMethodNames, local \in BOOLEAN : Invoke(m, <<"actor">>, local)

Spec == Init /\ [][Next]_vars

\* the membership feed: the service's 'up' and 'down' events while the clock
\* and the GC timer run.  onNodeAdded and onNodeRemoved touch nothing of the
\* request layer, and no handler of the request layer reads the membership,
\* so the two are explored apart: Spec with the membership as constructed,
\* ClusterSpec with no request made
ClusterNext ==
  \/ Tick
  \/ \E t \in timers : GcFire(t)
  \/ \E n \in Nodes : OnNodeAdded(n)
  \/ \E n \in Nodes : OnNodeRemoved(n)

ClusterSpec == Init /\ [][ClusterNext]_vars

\* the request round trip between the two nodes with the clock stopped: no
\* handler of the round trip reads the clock but addPendingRequest, which
\* stamps the key
RoundTripNext ==
  \/ \E c \in Calls : AddPendingRequest(c[1], c[2])
  \/ \E r \in 1..MaxRequests : Send(r)
  \/ \E r \in 1..MaxRequests : SendCallback(r)
  \/ \E env \in requestNet : LoseRequest(env)
  \/ \E env \in requestNet : RequestDelivery(env)
  \/ \E env \in responseNet : OnResponse(env)

RoundTripSpec == Init /\ [][RoundTripNext]_vars

\* the timer and the clock run, and the transport calls send()'s callback back
FairSpec ==
  /\ Spec
  /\ WF_vars(Tick)
  /\ WF_vars(\E t \in timers : GcFire(t))
  /\ WF_vars(\E r \in 1..MaxRequests : SendCallback(r))

\* ---------------------------------------------------------------- claims
Pending(r) == InSeq(pendingRequests, r)
Registered(r) == r \in DOMAIN requests
Acked(r) == Registered(r) /\ requests[r].sendState = "acked"
Resolved(r) == Registered(r) /\ requests[r].promise.state # "pending"
Fulfilled(v) == [state |-> "fulfilled", value |-> v]
Rejected(e) == [state |-> "rejected", value |-> e]
RegistryUnchanged == UNCHANGED <<pendingRequests, pendingRequestsKeyMap>>

\* C1: handling a response envelope whose correlation id is not in the
\* registry is a no-op: no error is raised, the registry and the requests
\* are left as they were
C1_AbsentIdIsNoOp ==
  [][\A env \in responseNet :
       (OnResponse(env) /\ pendingRequestsKeyMap[env.messages[1]] = NULL)
         => (thrown' = NoError /\ RegistryUnchanged /\ requests' = requests)]_vars

\* C2: exactly-once resolution: a call's callback is invoked at most once, a
\* call whose callback was invoked is out of the registry, and a correlation
\* id that has been resolved is never resolved again
C2_ExactlyOnce ==
  /\ \A r \in DOMAIN requests :
       /\ requests[r].calls <= 1
       /\ requests[r].calls = 1 => ~Pending(r)
  /\ \A id \in Ids :
       Cardinality({r \in DOMAIN requests : requests[r].id = id /\ requests[r].calls > 0}) <= 1

\* C3: every call that is in the registry, was sent and was acknowledged by
\* the transport eventually resolves (a value, an error or a timeout),
\* whether or not a response ever arrives
C3_EventuallyResolves ==
  \A r \in 1..MaxRequests : (Acked(r) /\ Pending(r)) ~> Resolved(r)

\* C4: no two calls pending at the same time share a correlation id
C4_FreshId ==
  \A i, j \in DOMAIN pendingRequests :
    i # j => requests[pendingRequests[i]].id # requests[pendingRequests[j]].id

\* C5: once the transport has reported a send failure the call has failed
\* with the dispatch error and neither pendingRequests nor
\* pendingRequestsKeyMap holds an entry for it
C5_FailedSendNotRegistered ==
  \A r \in DOMAIN requests :
    requests[r].sendState = "failed" =>
      /\ requests[r].promise = Rejected(SendError)
      /\ ~Pending(r)
      /\ pendingRequestsKeyMap[requests[r].id] # r

\* C6: a response that resolves a call resolves it with the remote outcome:
\* fulfilled with v when the remote method returned v, rejected with e when
\* it raised e
C6_RemoteOutcome ==
  [][\A env \in responseNet, r \in DOMAIN requests, c \in Calls :
       (/\ OnResponse(env)
        /\ env.messages = ResponseMessages(<<c[1]>> \o c[2])
        /\ ~Resolved(r)
        /\ requests'[r].promise.state # "pending")
         => LET o == OnRequest(c[2]) IN
            requests'[r].promise = IF o.threw THEN Rejected(o.val) ELSE Fulfilled(o.val)]_vars

\* C7: every request envelope in flight has the shape
\* [correlationId, methodName, ...args] of a registered call
C7_RequestEnvelopeShape ==
  \A env \in requestNet :
    \E r \in DOMAIN requests :
      env.messages = <<requests[r].id, requests[r].method>> \o requests[r].args

\* C8: a GC run over entries whose callbacks are installed rejects with the
\* timed-out error and removes exactly the entries older than the GC window,
\* and leaves every other entry registered and untouched
C8_ReapIsPrefixScan ==
  [][\A t \in timers :
       (GcFire(t) /\ \A r \in DOMAIN requests : Pending(r) => requests[r].callbacks)
         => \A r \in DOMAIN requests :
              Pending(r) =>
                IF requests[r].timestamp < now - GcTimeoutTime
                THEN /\ ~InSeq(pendingRequests', r)
                     /\ requests'[r].promise = Settle(requests[r].promise, "rejected", TimedOut)
                     /\ requests'[r].calls = requests[r].calls + 1
                ELSE /\ InSeq(pendingRequests', r)
                     /\ requests'[r] = requests[r]]_vars

\* the wait for the next GC run: one GC period
SchedulingSlack == GcTimeoutTime

\* C9: with the GC scheduled, an acknowledged call that is still waiting in
\* the registry for its response is failed no later than
\* gcWindow + schedulingSlack after its submission
C9_TimedOutInTime ==
  \A r \in DOMAIN requests :
    (Acked(r) /\ Pending(r) /\ ~Resolved(r) /\ gcTimer # NoTimer)
      => now - requests[r].timestamp <= GcTimeoutTime + SchedulingSlack

\* C10: a call of a shard-routed method whose key is owned by the local node
\* returns the method body's result, or propagates its failure, and leaves
\* the registry and the transport alone
C10_LocalCall ==
  [][\A m \in ShardedMethodNames :
       Invoke(m, <<"actor">>, TRUE)
         => LET body == MethodBody(m, <<"actor">>) IN
            /\ IF body.threw THEN thrown' = body.val ELSE returned' = body.val
            /\ RegistryUnchanged
            /\ UNCHANGED <<requestNet, responseNet>>]_vars

\* C12: once the debounce window after the last membership event has
\* closed, exactly one of the live nodes is the elected leader
C12_OneLeader ==
  (nodes # {} /\ now - lastChange >= DebounceWindow) => leader \in nodes

\* C18: at most one GC timer is scheduled at any time, and every GC run,
\* here one over entries whose callbacks are all installed, ends with the
\* next GC run scheduled
C18_GcKeepsRunning ==
  [][\A t \in timers :
       (GcFire(t) /\ \A r \in DOMAIN requests : Pending(r) => requests[r].callbacks)
         => (gcTimer' # NoTimer /\ timers' = {gcTimer'})]_vars

\* the response a request envelope with these messages is owed: the received
\* request id, then the value of the named method, or the error when the
\* method name is missing, the method is not registered or its body throws
ResponseOwed(msgs) ==
  LET requestId == msgs[1] IN
  IF Len(msgs) < 2 THEN <<requestId, Undef, MethodNameMissing>>
  ELSE IF msgs[2] \notin ShardedMethodNames THEN <<requestId, Undef, MethodNotAvailable>>
  ELSE LET body == MethodBody(msgs[2], SubSeq(msgs, 3, Len(msgs))) IN
       IF body.threw THEN <<requestId, Undef, body.val>>
                     ELSE <<requestId, body.val, Undef>>

\* C19: the delivery of a request envelope sends exactly one response
\* envelope, on the request's return route, with the received request id and
\* the value or the error of the four cases
C19_OneResponse ==
  [][\A env \in requestNet :
       RequestDelivery(env)
         => /\ responseNet' = responseNet \cup
                 {[messages |-> ResponseOwed(env.messages), route |-> env.returnRoute]}
            /\ requestNet' = requestNet \ {env}]_vars

\* a value response and an error response (method name missing) are in flight
C19_Witness ==
  \E a, b \in responseNet :
    /\ a.messages[2] = "v" /\ a.messages[3] = Undef /\ a.route = "initiator"
    /\ b.messages[2] = Undef /\ b.messages[3] = MethodNameMissing

\* C20: the keys stored in pendingRequestsKeyMap are exactly the keys of
\* pendingRequests, each under the id it carries
C20_RegistryCorrespondence ==
  /\ {pendingRequestsKeyMap[id] : id \in Ids} \ {NULL}
       = {pendingRequests[i] : i \in DOMAIN pendingRequests}
  /\ \A id \in Ids :
       pendingRequestsKeyMap[id] # NULL => requests[pendingRequestsKeyMap[id]].id = id

\* C21: a registered request whose send() callback has run and that a
\* response or a GC run takes out of the registry, to resolve or reject it,
\* has its resolve / reject callbacks installed
C21_CallbacksInstalled ==
  [][\A r \in DOMAIN requests :
       (/\ Pending(r)
        /\ requests[r].sendState \in {"acked", "failed"}
        /\ ~InSeq(pendingRequests', r))
         => requests[r].callbacks]_vars
====
